---- MODULE Spec2Model ----
(***************************************************************************)
(* Model of scripts/pid_optimizer.py (class PIDOptimizer).                 *)
(*                                                                         *)
(* Three specifications share one set of variables:                        *)
(*   Spec      the run() state machine: baseline, strategy menu, the       *)
(*             objective calls of Nelder-Mead / Differential Evolution /   *)
(*             hybrid, the result tracker, summary, save, interrupt;       *)
(*   SpecEval  evaluate() step by step against the motion executor         *)
(*             (run_move, the sampling loop, wait_ready), with the         *)
(*             executor and the telemetry as an adversarial environment;   *)
(*   SpecCost  the cost reduction of evaluate() as a pure function of the  *)
(*             sample batch.                                               *)
(*                                                                         *)
(* Numbers.  Gains are fixed-point integers: P and I in units of 1, D in   *)
(* units of 0.001, FF1 in units of 0.1, FF2 in units of 0.0001.  Error     *)
(* samples are integers (micrometres).  A cost is the exact square of the  *)
(* float the code returns, kept as a fraction in lowest terms              *)
(* [num, den]; squaring is monotone on the non-negative costs, so <, =     *)
(* and min are those of the code, and "2 x rms" is "4 x num".              *)
(***************************************************************************)
EXTENDS Integers, Sequences, FiniteSets

(***************************************************************************)
(* Program constants                                                       *)
(***************************************************************************)
\* self.best_rms = 999 / return 999.0
SentinelRms == 999
\* if len(errors) > 20
MinOscLen == 20
\* sign_changes > len(diff) * 0.4, as the ratio OscNum / OscDen
OscNum == 4
OscDen == 10
\* self.test_distance = 15
TestDistance == 15
\* if vel > 5: append
VelGate == 5
\* ... and vel < 1: break
VelFloor == 1

Names == {"P", "I", "D", "FF1", "FF2"}
Axes  == {"x", "y"}

\* self.bounds, in the fixed-point units of the header
bounds ==
  [n \in Names |->
     CASE n = "P"   -> <<50, 200>>
       [] n = "I"   -> <<10, 150>>
       [] n = "D"   -> <<0, 10>>
       [] n = "FF1" -> <<8, 11>>
       [] n = "FF2" -> <<0, 10>>]

InBounds(n, v) == bounds[n][1] <= v /\ v <= bounds[n][2]

(***************************************************************************)
(* Exact arithmetic on costs                                               *)
(***************************************************************************)
RECURSIVE GCD(_, _)
GCD(a, b) == IF b = 0 THEN a ELSE GCD(b, a % b)

\* the fraction a / b (a >= 0, b > 0) in lowest terms
Frac(a, b) == LET g == GCD(a, b) IN [num |-> a \div g, den |-> b \div g]

\* the cost whose value is the integer k
CostOfInt(k) == [num |-> k * k, den |-> 1]

Sentinel == CostOfInt(SentinelRms)

\* a < b on costs
CostLT(a, b) == a.num * b.den < b.num * a.den
CostLE(a, b) == a.num * b.den <= b.num * a.den

\* rms *= 2
Doubled(c) == Frac(4 * c.num, c.den)

(***************************************************************************)
(* evaluate(): reduction of a sample batch to a cost                       *)
(***************************************************************************)
RECURSIVE SumSq(_)
SumSq(s) == IF s = <<>> THEN 0 ELSE Head(s) * Head(s) + SumSq(Tail(s))

\* np.sqrt(np.mean(errors**2)), squared
Rms(errors) == Frac(SumSq(errors), Len(errors))

\* np.diff
NpDiff(s) == [i \in 1..(Len(s) - 1) |-> s[i + 1] - s[i]]

\* faulty variant of NpSign: steps of magnitude 1 count as flat
NpSignDeadband(s) ==
  [i \in 1..Len(s) |-> IF s[i] > 1 THEN 1 ELSE IF s[i] < -1 THEN -1 ELSE 0]

\* np.sign
NpSign(s) == [i \in 1..Len(s) |-> IF s[i] > 0 THEN 1 ELSE IF s[i] < 0 THEN -1 ELSE 0]

RECURSIVE CountNonZero(_)
\* np.sum(v != 0)
CountNonZero(s) ==
  IF s = <<>> THEN 0
  ELSE (IF Head(s) /= 0 THEN 1 ELSE 0) + CountNonZero(Tail(s))

\* sign_changes = np.sum(np.diff(np.sign(diff)) != 0)
SignChanges(diff) == CountNonZero(NpDiff(NpSign(diff)))

\* faulty variant of OscillationPenalty: the length test written >= instead of >
OscillationPenaltyAtMinLen(errors) ==
  /\ Len(errors) >= MinOscLen
  /\ SignChanges(NpDiff(errors)) * OscDen > Len(NpDiff(errors)) * OscNum

\* the two nested conditions under which rms is doubled
OscillationPenalty(errors) ==
  /\ Len(errors) > MinOscLen
  /\ SignChanges(NpDiff(errors)) * OscDen > Len(NpDiff(errors)) * OscNum

\* faulty variant of EvaluateCost: the empty batch reduced like any other (cost 0)
EvaluateCostNoEmptyGuard(all_errors) ==
  IF all_errors = <<>> THEN CostOfInt(0)
  ELSE IF OscillationPenalty(all_errors) THEN Doubled(Rms(all_errors))
  ELSE Rms(all_errors)

\* evaluate(), from "if not all_errors" to "return rms"
EvaluateCost(all_errors) ==
  IF all_errors = <<>> THEN Sentinel
  ELSE IF OscillationPenalty(all_errors) THEN Doubled(Rms(all_errors))
  ELSE Rms(all_errors)

(***************************************************************************)
(* Bounds of the model                                                     *)
(***************************************************************************)
\* sampling-loop deadline of collect_during_move, in polls (the code:
\* test_distance * 1.5 / (test_feed / 60) + 0.5 seconds at one poll per 2 ms)
SampleDeadline == 2
\* wait_ready timeout, in polls (the code: 10 s at one poll per 50 ms)
WaitDeadline == 2
\* cmd.wait_complete() timeout, in ticks (linuxcnc's default: 5 s)
ModeWaitDeadline == 1
\* evaluate() calls explored by SpecEval
MaxEvalCalls == 2
\* objective calls per strategy phase explored by Spec (the code: maxfev 60 for
\* Nelder-Mead, maxiter 10 x popsize 5 generations for Differential Evolution)
MaxEvals == 3
\* longest batch SpecCost reduces
MaxBatchLen == 23
MaxCostCalls == 3

(***************************************************************************)
(* State                                                                   *)
(***************************************************************************)
VARIABLES
  \* ---- the live system (HAL pins and the motion executor) ----
  hal,          \* hal[axis][name]: the gain pid.<axis>.<name>
  task_mode,    \* stat.task_mode: "MANUAL" or "MDI"
  mode_req,     \* a cmd.mode(MODE_MDI) request the executor has not acknowledged
  queue,        \* MDI moves accepted and not yet started (their targets)
  moving,       \* <<target>> while a move executes, <<>> when the interpreter is idle
  epos,         \* stat.actual_position, along the X = Y diagonal
  cmd_log,      \* the last command sent on the command channel
  \* ---- evaluate() ----
  epc,          \* position inside evaluate / collect_during_move / run_move
  leg,          \* 1: outward leg, 2: return leg
  origin,       \* x0, y0 = self.get_position()
  errors,       \* collect_during_move's local list
  all_errors,   \* evaluate's concatenated batch
  elapsed,      \* time.time() - start of the loop being executed, in polls
  polls,        \* loop iterations executed so far by the evaluate call in progress
  ret,          \* <<cost>> once evaluate has returned, <<>> before
  ncalls,       \* evaluate() calls started
  seen,         \* the (batch, cost) pairs of the evaluate calls that returned earlier
  mdi_sent,     \* the targets of the cmd.mdi calls of the evaluate call in progress
  ready,        \* <<result>> of the last wait_ready call, <<>> before
  \* ---- PIDOptimizer fields and run() locals ----
  pc,           \* position inside run() / __main__
  eval_count,
  best_rms,
  best_params,
  baseline_rms, \* <<cost>> once measured
  choice,       \* the operator's answer at the strategy prompt
  phase,        \* the search running: "nm", "de" or "none"
  param_names,  \* the names the running search tunes
  start_vec,    \* Nelder-Mead's x0, as a dict over param_names
  params,       \* the dict objective() built for the evaluation in progress
  rec_costs,    \* the costs objective() has returned since the search started
  result,       \* <<[params, rms]>> once a strategy has returned to run()
  reported,     \* <<[params, rms]>> once the completion summary has printed it
  saved,        \* <<[params, rms]>> once save_to_hal has written the file
  \* ---- scripts/pid_tuner.py: PIDTuner fields ----
  tuner_pc,     \* position inside PIDTuner.run
  tuner_axis,   \* self.axis
  tuner_params, \* self.params[axis][name], the tuner's table
  running,      \* self.running
  nkeys         \* keys handled so far

sysVars  == <<hal, task_mode, mode_req, queue, moving, epos, cmd_log>>
evalVars == <<epc, leg, origin, errors, all_errors, elapsed, polls, ret, ncalls,
              seen, mdi_sent, ready>>
runVars  == <<pc, eval_count, best_rms, best_params, baseline_rms, choice, phase,
              param_names, start_vec, params, rec_costs, result, reported, saved>>
tunerVars == <<tuner_pc, tuner_axis, tuner_params, running, nkeys>>
vars     == <<sysVars, evalVars, runVars, tunerVars>>

(***************************************************************************)
(* Telemetry port: getp / setp / get_current_params / apply_params         *)
(***************************************************************************)
\* the dict {} of __init__
EmptyDict == [n \in {} |-> 0]

\* getp(name) for a gain pin of axis a: the pin's value, 0 when hal.get_value raises
getp(h, a, n, failed) == IF n \in failed THEN 0 ELSE h[a][n]

\* get_current_params(): the X axis' five gains, read through getp;
\* failed: the names whose read raises
get_current_params(h, failed) == [n \in Names |-> getp(h, "x", n, failed)]

\* faulty variant of apply_params: only the X axis is written
apply_params_x_only(h, p, failed) ==
  [a \in Axes |-> [n \in Names |->
     IF a = "x" /\ <<a, n>> \notin failed THEN p[n] ELSE h[a][n]]]

\* apply_params(params): setp on both axes, for a dict holding all five names;
\* failed: the (axis, name) writes whose hal.set_p raises (setp returns False,
\* the pin keeps its value)
apply_params(h, p, failed) ==
  [a \in Axes |-> [n \in Names |-> IF <<a, n>> \in failed THEN h[a][n] ELSE p[n]]]

\* the gain vectors the environment and the search draw from
LoParams   == [n \in Names |-> bounds[n][1]]
HiParams   == [n \in Names |-> bounds[n][2]]
\* one step above the upper bound (P 210, I 160, D 0.011, FF1 1.2, FF2 0.0011)
OverParams == [n \in Names |-> bounds[n][2] + (IF n \in {"P", "I"} THEN 10 ELSE 1)]

\* telemetry failures the environment may produce during one call
ReadFails  == {{}, {"D"}}
WriteFails == {{}, {<<"y", "P">>}, {<<"x", "P">>}}

\* readings of one poll: pid.x.error, pid.y.error (micrometres) and the activity
\* |pid.x.output| + |pid.y.output| (below the floor, between floor and gate, above)
ErrX    == {-4, 1}
ErrY    == {2}
VelVals == {0, 3, 6}

Abs(v) == IF v < 0 THEN -v ELSE v
Max(a, b) == IF a >= b THEN a ELSE b

\* stat.interp_state == linuxcnc.INTERP_IDLE
InterpIdle == moving = <<>>

(***************************************************************************)
(* The motion executor (environment of SpecEval)                           *)
(***************************************************************************)
\* the task acknowledges the pending mode switch
ExecAckMode ==
  /\ mode_req
  /\ task_mode' = "MDI"
  /\ mode_req' = FALSE
  /\ UNCHANGED <<hal, queue, moving, epos, cmd_log, evalVars, tunerVars, runVars>>

\* the interpreter starts the oldest queued move: interp_state leaves INTERP_IDLE
ExecStart ==
  /\ moving = <<>>
  /\ queue /= <<>>
  /\ moving' = <<Head(queue)>>
  /\ queue' = Tail(queue)
  /\ UNCHANGED <<hal, task_mode, mode_req, epos, cmd_log, evalVars, tunerVars, runVars>>

\* the executing move reaches its target: interp_state returns to INTERP_IDLE
ExecFinish ==
  /\ moving /= <<>>
  /\ epos' = moving[1]
  /\ moving' = <<>>
  /\ UNCHANGED <<hal, task_mode, mode_req, queue, cmd_log, evalVars, tunerVars, runVars>>

(***************************************************************************)
(* evaluate(), collect_during_move(), run_move(), wait_ready()             *)
(***************************************************************************)
\* positions are integers in units of 1 / PosPerMm millimetre
PosPerMm == 4000

\* f"{v:.3f}": v rounded to the nearest 0.001 mm (no position of the model lies
\* halfway between two such values)
Format3(v) ==
  LET q == PosPerMm \div 1000
  IN ((2 * v + q) \div (2 * q)) * q

\* faulty variant of LegTargetOf: the return leg goes to the outward target
LegTargetNoReturn(l, x0) == Format3(x0 + TestDistance * PosPerMm)

\* the target run_move writes into the G-code of leg l of an evaluation whose
\* baseline position is x0: (x0 + d, y0 + d), then (x0, y0), each as "%.3f"
LegTargetOf(l, x0) ==
  Format3(IF l = 1 THEN x0 + TestDistance * PosPerMm ELSE x0)

\* target of the leg being executed
LegTarget == LegTargetOf(leg, origin)

\* faulty variant of SampleExpired / WaitReadyExpired: a loop with no deadline
NeverExpires == FALSE

\* "while time.time() - start < timeout" of collect_during_move is false
SampleExpired == elapsed >= SampleDeadline

\* "while time.time() - start < timeout" of wait_ready is false
WaitReadyExpired == elapsed >= WaitDeadline

\* cmd.wait_complete() gives up
ModeWaitExpired == elapsed >= ModeWaitDeadline

\* evaluate(params_dict), first two statements: apply_params and get_position
evaluate_begin ==
  /\ epc = "idle"
  /\ ncalls < MaxEvalCalls
  /\ \E p \in {LoParams, HiParams}, wf \in WriteFails :
       hal' = apply_params(hal, p, wf)
  /\ origin' = epos
  /\ leg' = 1
  /\ all_errors' = <<>>
  /\ errors' = <<>>
  /\ ret' = <<>>
  /\ elapsed' = 0
  /\ polls' = 0
  /\ ncalls' = ncalls + 1
  /\ mdi_sent' = <<>>
  /\ epc' = "run_move"
  /\ UNCHANGED <<task_mode, mode_req, queue, moving, epos, cmd_log, seen, ready,
                 tunerVars, runVars>>

\* run_move: stat.poll(); outside MDI mode, cmd.mode(MODE_MDI) is sent first
run_move ==
  /\ epc = "run_move"
  /\ errors' = <<>>
  /\ elapsed' = 0
  /\ IF task_mode /= "MDI"
       THEN /\ mode_req' = TRUE
            /\ cmd_log' = "mode"
            /\ epc' = "wait_complete"
       ELSE /\ epc' = "mdi"
            /\ UNCHANGED <<mode_req, cmd_log>>
  /\ UNCHANGED <<hal, task_mode, queue, moving, epos,
                 leg, origin, all_errors, polls, ret, ncalls, seen, mdi_sent, ready,
                 tunerVars, runVars>>

\* cmd.wait_complete(): returns when the mode switch is acknowledged or on timeout
wait_complete ==
  /\ epc = "wait_complete"
  /\ IF ~mode_req \/ ModeWaitExpired
       THEN epc' = "mdi" /\ elapsed' = 0 /\ polls' = polls
       ELSE epc' = epc /\ elapsed' = elapsed + 1 /\ polls' = polls + 1
  /\ UNCHANGED <<sysVars, leg, origin, errors, all_errors, ret, ncalls, seen, mdi_sent, ready,
                 tunerVars, runVars>>

\* cmd.mdi(gcode); time.sleep(0.01); start = time.time().  The task queues the
\* move in MDI mode and rejects it in any other mode.
mdi ==
  /\ epc = "mdi"
  /\ cmd_log' = "mdi"
  /\ queue' = IF task_mode = "MDI" THEN Append(queue, LegTarget) ELSE queue
  /\ mdi_sent' = Append(mdi_sent, LegTarget)
  /\ elapsed' = 0
  /\ epc' = "sample"
  /\ UNCHANGED <<hal, task_mode, mode_req, moving, epos,
                 leg, origin, errors, all_errors, polls, ret, ncalls, seen, ready,
                 tunerVars, runVars>>

\* faulty variant of sample_step: the reading is appended whatever the activity
sample_step_ungated(ex, ey, vel) ==
  /\ epc = "sample"
  /\ ~SampleExpired
  /\ errors' = Append(errors, Max(Abs(ex), Abs(ey)))
  /\ IF InterpIdle /\ vel < VelFloor
       THEN epc' = "wait_ready" /\ elapsed' = 0
       ELSE epc' = epc /\ elapsed' = elapsed + 1
  /\ polls' = polls + 1
  /\ UNCHANGED <<sysVars, leg, origin, all_errors, ret, ncalls, seen, mdi_sent, ready,
                 tunerVars, runVars>>

\* one iteration of the sampling loop of collect_during_move, in which the
\* pins read err_x = ex, err_y = ey and |pid.x.output| + |pid.y.output| = vel
sample_step(ex, ey, vel) ==
  /\ epc = "sample"
  /\ ~SampleExpired
  /\ errors' = IF vel > VelGate
                 THEN Append(errors, Max(Abs(ex), Abs(ey)))
                 ELSE errors
  /\ IF InterpIdle /\ vel < VelFloor
       THEN epc' = "wait_ready" /\ elapsed' = 0
       ELSE epc' = epc /\ elapsed' = elapsed + 1
  /\ polls' = polls + 1
  /\ UNCHANGED <<sysVars, leg, origin, all_errors, ret, ncalls, seen, mdi_sent, ready,
                 tunerVars, runVars>>

\* the sampling loop of collect_during_move, over the readings of the pins
sample_poll == \E ex \in ErrX, ey \in ErrY, vel \in VelVals : sample_step(ex, ey, vel)

\* the sampling loop ends on its deadline
sample_deadline ==
  /\ epc = "sample"
  /\ SampleExpired
  /\ epc' = "wait_ready"
  /\ elapsed' = 0
  /\ UNCHANGED <<sysVars, leg, origin, errors, all_errors, polls, ret, ncalls, seen, mdi_sent, ready,
                 tunerVars, runVars>>

\* collect_during_move returns errors; evaluate extends all_errors with it
LegReturns ==
  /\ all_errors' = all_errors \o errors
  /\ errors' = <<>>
  /\ elapsed' = 0
  /\ IF leg = 1
       THEN leg' = 2 /\ epc' = "run_move"
       ELSE leg' = leg /\ epc' = "reduce"

\* one iteration of wait_ready's loop; its result is dropped by the caller
wait_ready_poll ==
  /\ epc = "wait_ready"
  /\ ~WaitReadyExpired
  /\ IF InterpIdle
       THEN LegReturns /\ ready' = <<TRUE>>
       ELSE /\ elapsed' = elapsed + 1
            /\ UNCHANGED <<epc, leg, errors, all_errors, ready>>
  /\ polls' = polls + 1
  /\ UNCHANGED <<sysVars, origin, ret, ncalls, seen, mdi_sent,
                 tunerVars, runVars>>

\* faulty variant of wait_ready_timeout: the timeout aborts the evaluation,
\* which returns the sentinel
wait_ready_timeout_aborts ==
  /\ epc = "wait_ready"
  /\ WaitReadyExpired
  /\ ready' = <<FALSE>>
  /\ ret' = <<Sentinel>>
  /\ epc' = "idle"
  /\ elapsed' = 0
  /\ UNCHANGED <<sysVars, leg, origin, errors, all_errors, polls, ncalls, seen, mdi_sent,
                 tunerVars, runVars>>

\* wait_ready returns False on its timeout; collect_during_move returns all the same
wait_ready_timeout ==
  /\ epc = "wait_ready"
  /\ WaitReadyExpired
  /\ LegReturns
  /\ ready' = <<FALSE>>
  /\ UNCHANGED <<sysVars, origin, polls, ret, ncalls, seen, mdi_sent,
                 tunerVars, runVars>>

\* faulty variant of evaluate_return: the doubling is carried over from an
\* earlier evaluation that was penalised
evaluate_return_carry ==
  /\ epc = "reduce"
  /\ ret' = <<IF \E r \in seen : r.batch /= <<>> /\ r.cost /= Rms(r.batch)
              THEN Doubled(EvaluateCost(all_errors))
              ELSE EvaluateCost(all_errors)>>
  /\ epc' = "idle"
  /\ UNCHANGED <<sysVars, leg, origin, errors, all_errors, elapsed, polls, ncalls, seen, mdi_sent, ready,
                 tunerVars, runVars>>

\* evaluate's reduction of the batch and its return
evaluate_return ==
  /\ epc = "reduce"
  /\ ret' = <<EvaluateCost(all_errors)>>
  /\ epc' = "idle"
  /\ UNCHANGED <<sysVars, leg, origin, errors, all_errors, elapsed, polls, ncalls, seen, mdi_sent, ready,
                 tunerVars, runVars>>

\* KeyboardInterrupt during evaluate: the exception unwinds to __main__, which
\* prints a line and lets the process end; nothing is sent to the executor
interrupt_eval ==
  /\ epc \notin {"idle", "interrupted"}
  /\ epc' = "interrupted"
  /\ UNCHANGED <<sysVars, leg, origin, errors, all_errors, elapsed, polls, ret, ncalls, seen, mdi_sent, ready,
                 tunerVars, runVars>>

InitSys ==
  /\ hal \in {[a \in Axes |-> LoParams], [a \in Axes |-> HiParams],
              [a \in Axes |-> IF a = "x" THEN LoParams ELSE HiParams]}
  /\ task_mode \in {"MANUAL", "MDI"}
  /\ mode_req = FALSE
  /\ queue = <<>>
  /\ moving = <<>>
  /\ epos \in {0, 1}
  /\ cmd_log = "none"

InitEvalVars ==
  /\ epc = "idle"
  /\ leg = 1
  /\ origin = 0
  /\ errors = <<>>
  /\ all_errors = <<>>
  /\ elapsed = 0
  /\ polls = 0
  /\ ret = <<>>
  /\ ncalls = 0
  /\ seen = {}
  /\ mdi_sent = <<>>
  /\ ready = <<>>

InitRunVars ==
  /\ pc = "start"
  /\ eval_count = 0
  /\ best_rms = Sentinel
  /\ best_params = EmptyDict
  /\ baseline_rms = <<>>
  /\ choice = "none"
  /\ phase = "none"
  /\ param_names = {}
  /\ start_vec = EmptyDict
  /\ params = EmptyDict
  /\ rec_costs = {}
  /\ result = <<>>
  /\ reported = <<>>
  /\ saved = <<>>

\* scripts/pid_tuner.py is not running
InitTunerOff ==
  /\ tuner_pc = "off"
  /\ tuner_axis = "x"
  /\ tuner_params = [a \in Axes |-> [n \in Names |-> 0]]
  /\ running = TRUE
  /\ nkeys = 0

InitEval == InitSys /\ InitEvalVars /\ InitRunVars /\ InitTunerOff

NextEval ==
  \/ evaluate_begin
  \/ run_move
  \/ wait_complete
  \/ mdi
  \/ sample_poll
  \/ sample_deadline
  \/ wait_ready_poll
  \/ wait_ready_timeout
  \/ evaluate_return
  \/ interrupt_eval
  \/ ExecAckMode
  \/ ExecStart
  \/ ExecFinish

SpecEval == InitEval /\ [][NextEval]_vars

(***************************************************************************)
(* Properties of evaluate() against the executor, checked under SpecEval   *)
(***************************************************************************)
\* inside an evaluate call
InEvaluate == epc \in {"run_move", "wait_complete", "mdi", "sample", "wait_ready", "reduce"}

\* C5: when a run is interrupted while a commanded move is still executing, a
\* controlled stop of the motion has been attempted before the optimizer exits:
\* the last command sent to the executor is an abort.
C5_InterruptStopsMotion ==
  (epc = "interrupted" /\ moving /= <<>>) => cmd_log = "abort"

\* what one evaluate call may spend in its six blocking points (two legs, each
\* with a mode-switch wait, a sampling loop and a settle wait)
MaxPollsPerEvaluate == 2 * (ModeWaitDeadline + SampleDeadline + WaitDeadline)

\* C6: every evaluate call returns after a bounded number of poll iterations
\* whatever the executor does: the iterations of a call never exceed the sum of
\* the deadlines of its blocking points, and inside a call a step of the
\* optimizer is always possible (no blocking point waits on the executor).
C6_EvaluateBounded ==
  /\ polls <= MaxPollsPerEvaluate
  /\ epc = "wait_complete" => elapsed <= ModeWaitDeadline
  /\ epc = "sample" => elapsed <= SampleDeadline
  /\ epc = "wait_ready" => elapsed <= WaitDeadline
  /\ InEvaluate =>
       ENABLED (\/ run_move \/ wait_complete \/ mdi \/ sample_poll \/ sample_deadline
                \/ wait_ready_poll \/ wait_ready_timeout \/ evaluate_return)

\* C6 witness: a call has returned although the move commanded in MDI mode never
\* finished: both legs ran into the sampling deadline and the settle timeout.
C6_Witness ==
  /\ epc = "idle"
  /\ ret /= <<>>
  /\ moving /= <<>>
  /\ polls >= 2 * (SampleDeadline + WaitDeadline)

\* C7: a move command is submitted only when the previously commanded move has
\* finished: at every cmd.mdi no move is executing and none is queued.
C7_MoveOnlyWhenIdle ==
  [][(epc = "mdi" /\ epc' = "sample") => (moving = <<>> /\ queue = <<>>)]_vars

\* C8: collect_during_move leaves its sampling loop only after the commanded
\* move has finished or the leg deadline has elapsed.
C8_NoPrematureStop ==
  [][(epc = "sample" /\ epc' = "wait_ready")
       => (SampleExpired \/ (moving = <<>> /\ queue = <<>>))]_vars

\* C9: whenever the two legs of an evaluation together yield no sample, evaluate
\* returns the sentinel cost 999 (never 0 or another value), and it returns.
C9_EmptyBatchSentinel ==
  /\ (ret /= <<>> /\ all_errors = <<>>) => ret[1] = Sentinel
  /\ epc = "reduce" => ENABLED evaluate_return

\* C9 witness: an evaluation that polled and gathered no sample returned 999.
C9_Witness ==
  /\ epc = "idle"
  /\ polls > 0
  /\ all_errors = <<>>
  /\ ret = <<Sentinel>>

\* C13: a value enters the batch of collect_during_move only at a poll whose
\* activity |pid.x.output| + |pid.y.output| exceeded the gate, and it is the
\* non-negative max(|err_x|, |err_y|) of that poll; a poll at rest leaves the
\* batch as it was, and nothing else ever adds to it.
C13_BatchOnlyActivePolls ==
  [][/\ \A ex \in ErrX, ey \in ErrY, vel \in VelVals :
          sample_step(ex, ey, vel) =>
            IF vel > VelGate
              THEN /\ errors' = Append(errors, Max(Abs(ex), Abs(ey)))
                   /\ errors'[Len(errors')] >= 0
                   /\ errors'[Len(errors')] \in {Abs(ex), Abs(ey)}
                   /\ errors'[Len(errors')] >= Abs(ex)
                   /\ errors'[Len(errors')] >= Abs(ey)
              ELSE errors' = errors
     /\ errors' /= errors =>
          \/ errors' = <<>>
          \/ \E ex \in ErrX, ey \in ErrY, vel \in VelVals :
               sample_step(ex, ey, vel) /\ vel > VelGate
     /\ all_errors' /= all_errors =>
          (all_errors' = <<>> \/ all_errors' = all_errors \o errors)]_vars

\* C13 witness: during a leg one poll was taken at rest and one under motion;
\* the batch holds the one reading
C13_Witness ==
  /\ epc = "sample"
  /\ leg = 1
  /\ polls = 2
  /\ Len(errors) = 1

(***************************************************************************)
(* SpecCost: the reduction of evaluate() applied to a family of batches    *)
(***************************************************************************)
\* n samples: the first m alternate 5, -5, ...; the rest move by d per sample
AltThenRamp(n, m, d) ==
  [i \in 1..n |->
     IF i <= m THEN (IF i % 2 = 1 THEN 5 ELSE -5)
     ELSE (IF m = 0 THEN 0 ELSE IF m % 2 = 1 THEN 5 ELSE -5) + d * (i - m)]

\* n samples rising by 1 up to the k-th and falling by 1 after it
RiseThenFall(n, k) == [i \in 1..n |-> IF i <= k THEN i ELSE 2 * k - i]

\* n samples rising by 1 at every second sample
Staircase(n) == [i \in 1..n |-> i \div 2]

\* n equal samples
Constant(n) == [i \in 1..n |-> 3]

CostBatches ==
  {<<>>}
  \cup {AltThenRamp(n, m, d) : n \in 1..MaxBatchLen, m \in 0..MaxBatchLen, d \in {1, -1}}
  \cup {RiseThenFall(n, k) : n \in 1..MaxBatchLen, k \in 1..MaxBatchLen}
  \cup {Staircase(n) : n \in 1..MaxBatchLen}
  \cup {Constant(n) : n \in 1..MaxBatchLen}

Alternating21 == [i \in 1..21 |-> IF i % 2 = 1 THEN 5 ELSE -5]

InitCost ==
  /\ InitSys /\ task_mode = "MDI" /\ hal = [a \in Axes |-> LoParams] /\ epos = 0
  /\ InitRunVars
  /\ InitTunerOff
  /\ epc = "reduce"
  /\ leg = 2
  /\ origin = 0
  /\ errors = <<>>
  /\ all_errors \in CostBatches
  /\ elapsed = 0
  /\ polls = 0
  /\ ret = <<>>
  /\ ncalls = 1
  /\ seen = {}
  /\ mdi_sent = <<LegTargetOf(1, 0), LegTargetOf(2, 0)>>
  /\ ready = <<TRUE>>

\* the batch with every sample multiplied by k
Scaled(b, k) == [i \in DOMAIN b |-> k * b[i]]

\* batches a later evaluation may collect whatever the earlier one collected
RepeatBatches == {<<>>, Alternating21}

\* a further evaluate call reaches its reduction: its two legs collected the
\* batch of the call before, that batch with every sample doubled, or an
\* unrelated batch
evaluate_again ==
  /\ epc = "idle"
  /\ ret /= <<>>
  /\ ncalls < MaxCostCalls
  /\ seen' = seen \cup {[batch |-> all_errors, cost |-> ret[1]]}
  /\ all_errors' \in {all_errors, Scaled(all_errors, 2)} \cup RepeatBatches
  /\ ret' = <<>>
  /\ ncalls' = ncalls + 1
  /\ epc' = "reduce"
  /\ UNCHANGED <<sysVars, leg, origin, errors, elapsed, polls, mdi_sent, ready,
                 tunerVars, runVars>>

NextCost == evaluate_return \/ evaluate_again

SpecCost == InitCost /\ [][NextCost]_vars

\* the sign of the k-th step of batch b
StepSign(b, k) ==
  IF b[k + 1] > b[k] THEN 1 ELSE IF b[k + 1] < b[k] THEN -1 ELSE 0

\* the places where two consecutive steps of b differ in sign
SignChangePlaces(b) == {k \in 1..(Len(b) - 2) : StepSign(b, k) /= StepSign(b, k + 1)}

\* more than 20 samples, and sign changes above 40% of the number of steps
ShouldPenalise(b) ==
  /\ Len(b) > 20
  /\ 10 * Cardinality(SignChangePlaces(b)) > 4 * (Len(b) - 1)

\* C10: for a non-empty batch evaluate returns 2 x RMS exactly when the batch has
\* more than 20 samples and the sign changes of its first difference exceed 40%
\* of the difference length, and the raw RMS otherwise; the 21-sample batch
\* alternating 5, -5 costs 10, a 21-sample rise-then-fall batch its raw RMS, and
\* a batch of 20 or fewer samples is never penalised.  (Costs are squared:
\* cost^2 * n = sum of squares, times 4 under the penalty.)
C10_PenaltyRule ==
  (ret /= <<>> /\ all_errors /= <<>>) =>
    LET b == all_errors
        cost == ret[1]
        raw == cost.num * Len(b) = cost.den * SumSq(b)
        twice == cost.num * Len(b) = cost.den * 4 * SumSq(b)
    IN /\ ShouldPenalise(b) => twice
       /\ ~ShouldPenalise(b) => raw
       /\ b = Alternating21 => cost = CostOfInt(10)
       /\ (\E k \in 2..20 : b = RiseThenFall(21, k)) => raw
       /\ Len(b) <= 20 => raw

\* C10 witness: the alternating 21-sample batch has been reduced to cost 10
C10_Witness == all_errors = Alternating21 /\ ret = <<CostOfInt(10)>>

\* cost is the raw RMS of batch b (squared: cost^2 * n = sum of squares)
IsRawRms(b, cost) == cost.num * Len(b) = cost.den * SumSq(b)

\* cost is twice the RMS of batch b
IsTwiceRms(b, cost) == cost.num * Len(b) = cost.den * 4 * SumSq(b)

\* C11: when an evaluation collects the batch of an earlier evaluation with
\* every sample multiplied by 2, its cost is exactly 2 times the earlier cost
\* (4 times, squared), and it is penalised exactly when the earlier one was.
C11_ScalingDoublesCost ==
  ret /= <<>> =>
    \A r \in seen :
      (r.batch /= <<>> /\ all_errors = Scaled(r.batch, 2)) =>
        /\ ret[1].num * r.cost.den = 4 * r.cost.num * ret[1].den
        /\ SumSq(r.batch) > 0 =>
             (IsTwiceRms(all_errors, ret[1]) <=> IsTwiceRms(r.batch, r.cost))

\* C11 witness: a penalised batch and its doubling have both been reduced
C11_Witness ==
  /\ ret /= <<>>
  /\ \E r \in seen :
       /\ Len(r.batch) > 20
       /\ all_errors = Scaled(r.batch, 2)
       /\ IsTwiceRms(r.batch, r.cost)
       /\ ret[1] /= r.cost

RunBatches == {<<>>, <<10>>, <<30>>, <<1000>>}

Restrict(d, names) == [n \in names |-> d[n]]

\* the vectors differential_evolution proposes for the names it is given
DEProposals(names) == {Restrict(LoParams, names), Restrict(HiParams, names)}

\* faulty variant of NMProposals: Nelder-Mead kept inside the bounds
NMProposalsBounded(names, x0, first) ==
  IF first THEN {x0} ELSE DEProposals(names)

\* the vectors minimize(method='Nelder-Mead') proposes: x0 first, then any
NMProposals(names, x0, first) ==
  IF first THEN {x0}
  ELSE {Restrict(LoParams, names), Restrict(HiParams, names), Restrict(OverParams, names)}

\* faulty variant of Improves: a tie replaces the best as well
ImprovesOrTies(rms, best) == CostLE(rms, best)

\* the tracker's update in objective(): "if rms < self.best_rms"
Improves(rms, best) == CostLT(rms, best)

\* optimize_nelder_mead(param_names) up to the call of minimize, on the gains h
nm_start(h, names) ==
  /\ \E rf \in ReadFails : start_vec' = Restrict(get_current_params(h, rf), names)
  /\ param_names' = names
  /\ phase' = "nm"
  /\ eval_count' = 0
  /\ best_rms' = Sentinel
  /\ rec_costs' = {}
  /\ pc' = "search"

\* optimize_de(param_names) up to the call of differential_evolution
de_start(names) ==
  /\ start_vec' = EmptyDict
  /\ param_names' = names
  /\ phase' = "de"
  /\ eval_count' = 0
  /\ best_rms' = Sentinel
  /\ rec_costs' = {}
  /\ pc' = "search"

\* run(): current = self.get_current_params(); baseline_rms = self.evaluate(current)
baseline ==
  /\ pc = "start"
  /\ \E rf \in ReadFails, wf \in WriteFails, batch \in RunBatches :
       /\ hal' = apply_params(hal, get_current_params(hal, rf), wf)
       /\ baseline_rms' = <<EvaluateCost(batch)>>
  /\ pc' = "menu"
  /\ UNCHANGED <<task_mode, mode_req, queue, moving, epos, cmd_log, evalVars, tunerVars,
                 eval_count, best_rms, best_params, choice, phase, param_names,
                 start_vec, params, rec_costs, result, reported, saved>>

\* run(): the strategy prompt and the dispatch on the answer
choose ==
  /\ pc = "menu"
  /\ \E c \in {"1", "2", "3", "4", "5", "q", "other"} :
       /\ choice' = c
       /\ CASE c = "1" -> nm_start(hal, {"P", "I", "FF1"})
            [] c = "2" -> de_start({"P", "I", "FF1"})
            [] c = "3" -> de_start({"P", "I", "FF1"})
            [] c = "4" -> nm_start(hal, {"P", "I"})
            [] c = "5" -> de_start(Names)
            [] c = "q" -> /\ pc' = "quit"
                          /\ UNCHANGED <<start_vec, param_names, phase, eval_count,
                                         best_rms, rec_costs>>
            [] OTHER   -> /\ pc' = "invalid"
                          /\ UNCHANGED <<start_vec, param_names, phase, eval_count,
                                         best_rms, rec_costs>>
  /\ UNCHANGED <<sysVars, evalVars, tunerVars, best_params, baseline_rms, params,
                 result, reported, saved>>

\* objective(x, param_names) up to the gains being written by evaluate
objective_call ==
  /\ pc = "search"
  /\ eval_count < MaxEvals
  /\ \E x \in (IF phase = "nm"
                 THEN NMProposals(param_names, start_vec, eval_count = 0)
                 ELSE DEProposals(param_names)),
        rf \in ReadFails, wf \in WriteFails :
       LET current == get_current_params(hal, rf)
           p == [n \in Names |-> IF n \in param_names THEN x[n] ELSE current[n]]
       IN /\ params' = p
          /\ hal' = apply_params(hal, p, wf)
  /\ pc' = "evaluating"
  /\ UNCHANGED <<task_mode, mode_req, queue, moving, epos, cmd_log, evalVars, tunerVars,
                 eval_count, best_rms, best_params, baseline_rms, choice, phase,
                 param_names, start_vec, rec_costs, result, reported, saved>>

\* objective(): evaluate returns the cost of the batch it collected;
\* eval_count and the tracker are updated
objective_returns(batch) ==
  /\ pc = "evaluating"
  /\ LET rms == EvaluateCost(batch)
     IN /\ rec_costs' = rec_costs \cup {rms}
        /\ IF Improves(rms, best_rms)
             THEN best_rms' = rms /\ best_params' = params
             ELSE UNCHANGED <<best_rms, best_params>>
  /\ eval_count' = eval_count + 1
  /\ params' = EmptyDict
  /\ pc' = "search"
  /\ UNCHANGED <<sysVars, evalVars, tunerVars,
                 baseline_rms, choice, phase, param_names, start_vec,
                 result, reported, saved>>

\* objective(), over the batches evaluate may collect
objective_return == \E batch \in RunBatches : objective_returns(batch)

\* "return self.best_params, self.best_rms" of optimize_nelder_mead / optimize_de
search_return ==
  /\ pc = "search"
  /\ eval_count >= 1
  /\ result' = <<[params |-> best_params, rms |-> best_rms]>>
  /\ phase' = "none"
  /\ pc' = IF choice = "3" /\ phase = "de" THEN "hybrid" ELSE "summary"
  /\ UNCHANGED <<sysVars, evalVars, tunerVars, eval_count, best_rms, best_params, baseline_rms,
                 choice, param_names, start_vec, params, rec_costs, reported, saved>>

\* run(), choice 3 between the phases: self.apply_params(params), then
\* optimize_nelder_mead over the five names; params = {} raises KeyError
hybrid_refine ==
  /\ pc = "hybrid"
  /\ IF result[1].params = EmptyDict
       THEN /\ pc' = "error"
            /\ UNCHANGED <<hal, start_vec, param_names, phase, eval_count,
                           best_rms, rec_costs>>
       ELSE \E wf \in WriteFails :
              LET h == apply_params(hal, result[1].params, wf)
              IN hal' = h /\ nm_start(h, Names)
  /\ UNCHANGED <<task_mode, mode_req, queue, moving, epos, cmd_log, evalVars, tunerVars,
                 best_params, baseline_rms, choice, params, result, reported, saved>>

\* run(): the completion summary prints params and rms
summary ==
  /\ pc = "summary"
  /\ reported' = result
  /\ pc' = "save_prompt"
  /\ UNCHANGED <<sysVars, evalVars, tunerVars, eval_count, best_rms, best_params, baseline_rms,
                 choice, phase, param_names, start_vec, params, rec_costs, result, saved>>

\* faulty variant of save_decision: saving also writes the gains to the pins
save_decision_applies ==
  /\ pc = "save_prompt"
  /\ \E answer \in {"", "n"} :
       IF answer /= "n"
         THEN IF result[1].params = EmptyDict
                THEN pc' = "error" /\ saved' = saved /\ hal' = hal
                ELSE /\ pc' = "done" /\ saved' = result
                     /\ hal' = apply_params(hal, result[1].params, {})
         ELSE pc' = "done" /\ saved' = saved /\ hal' = hal
  /\ UNCHANGED <<task_mode, mode_req, queue, moving, epos, cmd_log, evalVars, tunerVars,
                 eval_count, best_rms, best_params, baseline_rms,
                 choice, phase, param_names, start_vec, params, rec_costs, result,
                 reported>>

\* run(): the save prompt; save_to_hal(params, rms) raises KeyError on params = {}
save_decision ==
  /\ pc = "save_prompt"
  /\ \E answer \in {"", "n"} :
       IF answer /= "n"
         THEN IF result[1].params = EmptyDict
                THEN pc' = "error" /\ saved' = saved
                ELSE pc' = "done" /\ saved' = result
         ELSE pc' = "done" /\ saved' = saved
  /\ UNCHANGED <<sysVars, evalVars, tunerVars, eval_count, best_rms, best_params, baseline_rms,
                 choice, phase, param_names, start_vec, params, rec_costs, result,
                 reported>>

\* KeyboardInterrupt anywhere in run(): __main__ prints "Interrupted by user"
interrupt ==
  /\ pc \in {"start", "menu", "search", "evaluating", "hybrid", "summary", "save_prompt"}
  /\ pc' = "interrupted"
  /\ UNCHANGED <<sysVars, evalVars, tunerVars, eval_count, best_rms, best_params, baseline_rms,
                 choice, phase, param_names, start_vec, params, rec_costs, result,
                 reported, saved>>

Init ==
  InitSys /\ task_mode = "MDI" /\ epos = 0 /\ InitEvalVars /\ InitRunVars /\ InitTunerOff

Next ==
  \/ baseline
  \/ choose
  \/ objective_call
  \/ objective_return
  \/ search_return
  \/ hybrid_refine
  \/ summary
  \/ save_decision
  \/ interrupt

Spec == Init /\ [][Next]_vars

(***************************************************************************)
(* Properties of the run, checked under Spec                               *)
(***************************************************************************)
\* C1: during a search run (Nelder-Mead, Differential Evolution or hybrid) every
\* value written to a pid.x / pid.y gain lies within that parameter's (min, max)
\* of self.bounds: while a search is running all gains are within bounds.
C1_AppliedWithinBounds ==
  pc \in {"search", "evaluating", "hybrid"} =>
    \A a \in Axes, n \in Names : InBounds(n, hal[a][n])

\* C2: after any sequence of objective calls of one strategy run, best_rms is
\* the minimum of the costs evaluate returned in that sequence.
C2_BestIsMinimum ==
  (pc = "search" /\ rec_costs /= {}) =>
    /\ best_rms \in rec_costs
    /\ \A c \in rec_costs : CostLE(best_rms, c)

\* C3: within one optimizer run, both phases of the hybrid strategy included,
\* the tracked best cost never increases.
C3_BestNeverIncreases == [][CostLE(best_rms', best_rms)]_vars

\* C4: an operator interrupt ends the run with the best (params, cost) recorded
\* so far reported: once interrupted with a non-sentinel best, the run has
\* yielded that best result.
C4_InterruptReportsBest ==
  (pc = "interrupted" /\ best_rms /= Sentinel) =>
    reported = <<[params |-> best_params, rms |-> best_rms]>>

\* C14: an objective call with tuned names param_names leaves every other
\* parameter of the live system, on both axes, at the value it had immediately
\* before the call, also when a pin read fails during the call.
C14_UntunedUnchanged ==
  [][(pc = "search" /\ pc' = "evaluating") =>
       \A a \in Axes, n \in Names \ param_names : hal'[a][n] = hal[a][n]]_vars

\* C15: whenever evaluate commands a motion leg, the X and Y axes hold the same
\* value for each of P, I, D, FF1 and FF2 (the evaluated parameter set), also
\* when one of the pin writes of apply_params failed.
C15_AxesIdenticalAtMove ==
  [][(epc = "mdi" /\ epc' = "sample") =>
       \A n \in Names : hal["x"][n] = hal["y"][n]]_vars

\* C16: a pin read that fails is reported by getp as an 'unavailable' value,
\* not as a number a real reading could be.
C16_FailedReadUnavailable ==
  \A a \in Axes, n \in Names : getp(hal, a, n, {n}) \notin Int

\* C17: once a strategy has been selected, run() reaches its completion summary
\* without an unhandled error, whatever costs the evaluations return: no
\* exception leaves run() before the summary has been printed.
C17_SummaryReachedWithoutError ==
  (choice \in {"1", "2", "3", "4", "5"} /\ pc = "error") => reported /= <<>>

\* C18: in the hybrid strategy the Nelder-Mead phase starts only after the DE
\* phase has returned; at its start the live system holds the DE best on both
\* axes, and the simplex start vector equals the DE best for P, I and FF1.
C18_HybridHandover ==
  [][(choice = "3" /\ phase' = "nm" /\ phase /= "nm") =>
       /\ pc = "hybrid"
       /\ phase = "none"
       /\ result /= <<>>
       /\ \A a \in Axes, n \in Names : hal'[a][n] = result[1].params[n]
       /\ \A n \in {"P", "I", "FF1"} : start_vec'[n] = result[1].params[n]]_vars

\* C19: run_move submits the move only in MDI mode: when the mode differed, the
\* switch it requested has been acknowledged by the time cmd.mdi is sent.
C19_MoveOnlyInMdiMode ==
  [][(epc = "mdi" /\ epc' = "sample") => (task_mode = "MDI" /\ ~mode_req)]_vars

\* a strategy selected at the prompt is running
Running ==
  /\ choice \in {"1", "2", "3", "4", "5"}
  /\ pc \in {"search", "evaluating", "hybrid"}

\* the step starts an evaluation, commands its moves or writes a gain
EvaluatesOrWrites ==
  \/ hal' /= hal
  \/ cmd_log' /= cmd_log
  \/ queue' /= queue
  \/ baseline_rms' /= baseline_rms
  \/ eval_count' /= eval_count
  \/ (pc' = "evaluating" /\ pc /= "evaluating")

\* once the completion summary has been printed nothing is evaluated, moved or
\* written, and the summary shows the tracker's best of that moment
AfterSummaryNothing ==
  /\ reported /= <<>> => (~EvaluatesOrWrites /\ reported' = reported)
  /\ (reported = <<>> /\ reported' /= <<>>) =>
       reported' = <<[params |-> best_params, rms |-> best_rms]>>

\* C20: DONE is terminal: after the completion summary no evaluation, move
\* command or gain write is performed and the (params, cost) shown is the
\* tracker's best at that moment; every evaluation and gain write of the run
\* happens while a strategy is running.
C20_DoneTerminal ==
  [][AfterSummaryNothing /\ (EvaluatesOrWrites => Running)]_vars

\* C20 as amended: as C20, except that evaluations and gain writes happen while
\* a strategy is running or during the baseline measurement that run() makes
\* before the strategy prompt.
C20_DoneTerminalAfterBaseline ==
  [][AfterSummaryNothing /\ (EvaluatesOrWrites => (Running \/ pc = "start"))]_vars

\* C20 witness: the run is done after a search that found a best set, which the
\* summary showed and save_to_hal wrote, while the pins hold another set
C20_Witness ==
  /\ pc = "done"
  /\ reported = <<[params |-> best_params, rms |-> best_rms]>>
  /\ saved = reported
  /\ best_params /= EmptyDict
  /\ hal["x"] /= best_params

(***************************************************************************)
(* SpecTuner: scripts/pid_tuner.py, the manual tuner (class PIDTuner).     *)
(* It drives the same pins pid.<axis>.<gain> through halcmd; the optimizer *)
(* is not running.                                                         *)
(***************************************************************************)
\* keys handled in one run of the model
MaxKeys == 3

\* self.steps, in the fixed-point units of the header
steps ==
  [n \in Names |->
     CASE n = "P"   -> 10
       [] n = "I"   -> 5
       [] n = "D"   -> 1
       [] n = "FF1" -> 1
       [] n = "FF2" -> 1]

\* the gain a key names
KeyName ==
  [k \in {"P", "p", "I", "i", "D", "d", "F", "f", "G", "g"} |->
     CASE k \in {"P", "p"} -> "P"
       [] k \in {"I", "i"} -> "I"
       [] k \in {"D", "d"} -> "D"
       [] k \in {"F", "f"} -> "FF1"
       [] k \in {"G", "g"} -> "FF2"]

UpKeys   == {"P", "I", "D", "F", "G"}
DownKeys == {"p", "i", "d", "f", "g"}
Keys     == UpKeys \cup DownKeys \cup {"X", "x", "Y", "y", "Z", "S", "Q", "q", "other"}

\* halcmd failures the environment may produce during one call: the
\* (axis, name) accesses that raise or time out
TunerReadFails  == {{}, {<<"y", "P">>}}
TunerWriteFails == {{}, {<<"x", "I">>}}

\* read_current_values(): every gain of both axes through getp, which returns
\* 0.0 when halcmd fails
read_values(h, failed) ==
  [a \in Axes |-> [n \in Names |-> IF <<a, n>> \in failed THEN 0 ELSE h[a][n]]]

\* apply_value(param, value) on the tuner state st = [axis, params, hal]: setp
\* on the active axis' pin (a failed setp is swallowed), then the table entry
apply_value(st, param, value, failed) ==
  [axis   |-> st.axis,
   hal    |-> IF <<st.axis, param>> \in failed
                THEN st.hal
                ELSE [st.hal EXCEPT ![st.axis][param] = value],
   params |-> [st.params EXCEPT ![st.axis][param] = value]]

ParamOrder == <<"P", "I", "D", "FF1", "FF2">>
AxisOrder  == <<"x", "y">>

RECURSIVE ZeroLoop(_, _, _)
\* the loops of zero_all from their k-th iteration on: apply_value(param, 0)
\* on the axis active at that moment, and only then self.axis = axis
ZeroLoop(st, k, failed) ==
  IF k > Len(AxisOrder) * Len(ParamOrder) THEN st
  ELSE LET axis  == AxisOrder[((k - 1) \div Len(ParamOrder)) + 1]
           param == ParamOrder[((k - 1) % Len(ParamOrder)) + 1]
           st1   == apply_value(st, param, 0, failed)
       IN ZeroLoop([st1 EXCEPT !.axis = axis], k + 1, failed)

\* zero_all(): the two nested loops, then self.axis = 'x'
zero_all(st, failed) == [ZeroLoop(st, 1, failed) EXCEPT !.axis = "x"]

\* faulty variant of Decrease: no floor at 0
DecreaseUnclamped(v, step) == v - step

\* max(0, p[name] - self.steps[name])
Decrease(v, step) == Max(0, v - step)

\* handle_key(key)
handle_key(key) ==
  /\ tuner_pc = "loop"
  /\ nkeys < MaxKeys
  /\ \E failed \in TunerWriteFails :
       LET st == [axis |-> tuner_axis, params |-> tuner_params, hal |-> hal]
           p  == tuner_params[tuner_axis]
           st2 == CASE key \in UpKeys ->
                         apply_value(st, KeyName[key],
                                     p[KeyName[key]] + steps[KeyName[key]], failed)
                    [] key \in DownKeys ->
                         apply_value(st, KeyName[key],
                                     Decrease(p[KeyName[key]], steps[KeyName[key]]), failed)
                    [] key \in {"X", "x"} -> [st EXCEPT !.axis = "x"]
                    [] key \in {"Y", "y"} -> [st EXCEPT !.axis = "y"]
                    [] key = "Z" -> zero_all(st, failed)
                    [] OTHER -> st
       IN /\ tuner_axis' = st2.axis
          /\ tuner_params' = st2.params
          /\ hal' = st2.hal
  /\ running' = IF key \in {"Q", "q"} THEN FALSE ELSE running
  /\ nkeys' = nkeys + 1
  /\ tuner_pc' = "reread"
  /\ UNCHANGED <<task_mode, mode_req, queue, moving, epos, cmd_log, evalVars, runVars>>

\* run(): sys.stdin.read(1) and handle_key
tuner_key == \E key \in Keys : handle_key(key)

\* run(): no key within the select timeout
tuner_no_key ==
  /\ tuner_pc = "loop"
  /\ tuner_pc' = "reread"
  /\ UNCHANGED <<sysVars, evalVars, runVars, tuner_axis, tuner_params, running, nkeys>>

\* run(): read_current_values(), before the loop and at the end of each
\* iteration; then the test of "while self.running"
tuner_read ==
  /\ tuner_pc \in {"start", "reread"}
  /\ \E failed \in TunerReadFails : tuner_params' = read_values(hal, failed)
  /\ tuner_pc' = IF running THEN "loop" ELSE "exit"
  /\ UNCHANGED <<sysVars, evalVars, runVars, tuner_axis, running, nkeys>>

\* the drive's gains when the tuner starts
TunerGains ==
  {LoParams, HiParams, [n \in Names |-> IF n \in {"P", "I"} THEN 3 ELSE 0]}

InitTuner ==
  /\ hal \in [Axes -> TunerGains]
  /\ task_mode = "MANUAL"
  /\ mode_req = FALSE
  /\ queue = <<>>
  /\ moving = <<>>
  /\ epos = 0
  /\ cmd_log = "none"
  /\ InitEvalVars
  /\ InitRunVars
  /\ tuner_pc = "start"
  /\ tuner_axis = "x"
  /\ tuner_params = [a \in Axes |-> [n \in Names |-> 0]]
  /\ running = TRUE
  /\ nkeys = 0

NextTuner == tuner_key \/ tuner_no_key \/ tuner_read

SpecTuner == InitTuner /\ [][NextTuner]_vars

\* C21: after the emergency Z key all five gains of both axes are zero, on the
\* drive and in the tuner's table, whichever axis was active.
C21_ZeroAllZeroesEverything ==
  [][handle_key("Z") =>
       \A a \in Axes, n \in Names : hal'[a][n] = 0 /\ tuner_params'[a][n] = 0]_vars

\* C23: a gain key changes only the named gain of the active axis, in the table
\* and on the drive: uppercase adds the step, lowercase subtracts it but never
\* below 0, and the pin written receives the table's new value; the active axis,
\* every other gain and the other axis are unchanged, and gains that were
\* non-negative stay non-negative.
C23_GainKeyFrame ==
  [][\A key \in UpKeys \cup DownKeys :
       handle_key(key) =>
         LET n   == KeyName[key]
             old == tuner_params[tuner_axis][n]
             new == tuner_params'[tuner_axis][n]
         IN /\ tuner_axis' = tuner_axis
            /\ key \in UpKeys => new = old + steps[n]
            /\ key \in DownKeys =>
                 new = (IF old - steps[n] < 0 THEN 0 ELSE old - steps[n])
            /\ hal'[tuner_axis][n] \in {new, hal[tuner_axis][n]}
            /\ \A a \in Axes, m \in Names :
                 (a /= tuner_axis \/ m /= n) =>
                   /\ tuner_params'[a][m] = tuner_params[a][m]
                   /\ hal'[a][m] = hal[a][m]
            /\ (\A a \in Axes, m \in Names : tuner_params[a][m] >= 0 /\ hal[a][m] >= 0)
                 => (\A a \in Axes, m \in Names :
                       tuner_params'[a][m] >= 0 /\ hal'[a][m] >= 0)]_vars

\* C23 witness: on the Y axis a lowercase key has stopped P at 0 from a value
\* below its step and an uppercase key has raised D by its step, X untouched
C23_Witness ==
  /\ tuner_axis = "y"
  /\ nkeys = 3
  /\ tuner_pc = "reread"
  /\ tuner_params["y"] = [P |-> 0, I |-> 3, D |-> 1, FF1 |-> 0, FF2 |-> 0]
  /\ hal["y"] = tuner_params["y"]
  /\ hal["x"] = HiParams

\* C22: when the run completes and the operator does not answer 'n', save_to_hal
\* writes exactly the tracker's best parameter set with its cost (the same for
\* both axes); when the operator answers 'n' nothing is written.  So the save
\* prompt is left with nothing written or with the tracker's best written, and
\* never by an error.
C22_SavedIsTrackerBest ==
  [][(pc = "save_prompt" /\ pc' \notin {"save_prompt", "interrupted"}) =>
       /\ pc' = "done"
       /\ saved' \in {<<>>, <<[params |-> best_params, rms |-> best_rms]>>}]_vars

\* C24: an objective call whose cost is not strictly lower than best_rms (ties
\* included) leaves best_rms and best_params unchanged; a strictly lower cost
\* replaces both with that call's cost and its full parameter set.
C24_TrackerUpdate ==
  [][\A batch \in RunBatches :
       objective_returns(batch) =>
         LET rms == EvaluateCost(batch)
         IN IF rms.num * best_rms.den < best_rms.num * rms.den
              THEN /\ best_rms' = rms
                   /\ best_params' = params
                   /\ DOMAIN best_params' = Names
              ELSE best_rms' = best_rms /\ best_params' = best_params]_vars

\* C24 witness: two evaluations of one search returned the same cost, below 999,
\* and the tracker's set is not the one evaluated last
C24_Witness ==
  /\ pc = "search"
  /\ eval_count = 2
  /\ rec_costs = {best_rms}
  /\ best_rms /= Sentinel
  /\ DOMAIN best_params = Names
  /\ \E n \in Names : best_params[n] /= hal["x"][n] /\ best_params[n] /= hal["y"][n]

\* evaluate has read its baseline position and has not been interrupted
AfterBaselineRead == ncalls > 0 /\ epc /= "interrupted"

\* the cmd.mdi calls made so far by the evaluate call: none before the first
\* leg's command, one until the second leg's command, two from then on
MovesSoFar ==
  /\ epc \in {"run_move", "wait_complete", "mdi"} => Len(mdi_sent) = leg - 1
  /\ epc \in {"sample", "wait_ready"} => Len(mdi_sent) = leg
  /\ epc \in {"reduce", "idle"} => Len(mdi_sent) = 2

\* C25: each evaluate call writes the parameter set, reads the baseline
\* position (x0, y0), commands one move to (x0 + d, y0 + d) and one move back to
\* (x0, y0): exactly two move commands, the last target equal to the baseline
\* read at the start of the call.
C25_TwoLegsBackToBaseline ==
  AfterBaselineRead =>
    /\ MovesSoFar
    /\ Len(mdi_sent) >= 1 => mdi_sent[1] = origin + TestDistance * PosPerMm
    /\ Len(mdi_sent) >= 2 => mdi_sent[2] = origin

\* target t is the position v written with three decimals: a whole number of
\* thousandths of a millimetre, no further than half a thousandth from v
WrittenTo3Decimals(t, v) ==
  /\ t % (PosPerMm \div 1000) = 0
  /\ 2 * Abs(t - v) <= PosPerMm \div 1000

\* C25 as amended: as C25, with each target written with three decimals: the
\* last target is the baseline read at the start of the call rounded to 0.001 mm.
C25_TwoLegsBackToRoundedBaseline ==
  AfterBaselineRead =>
    /\ MovesSoFar
    /\ Len(mdi_sent) >= 1 =>
         WrittenTo3Decimals(mdi_sent[1], origin + TestDistance * PosPerMm)
    /\ Len(mdi_sent) >= 2 => WrittenTo3Decimals(mdi_sent[2], origin)

\* C25 witness: a call that read a baseline position with more than three
\* decimals has returned after its two moves
C25_Witness ==
  /\ epc = "idle"
  /\ ret /= <<>>
  /\ origin % (PosPerMm \div 1000) /= 0
  /\ Len(mdi_sent) = 2
  /\ mdi_sent[2] /= origin

\* C26: wait_ready returns True exactly when a poll made before its timeout
\* finds the interpreter idle, and False otherwise; neither a False result nor
\* an expired sampling deadline aborts the evaluation: the leg's samples join
\* the batch, the evaluation goes on to the next leg or to the reduction, and
\* the cost it returns is that of the samples collected.
C26_WaitReadyResult ==
  /\ [][/\ (epc = "wait_ready" /\ epc' \notin {"wait_ready", "interrupted"}) =>
            /\ ready' = <<InterpIdle /\ elapsed < WaitDeadline>>
            /\ all_errors' = all_errors \o errors
            /\ epc' = (IF leg = 1 THEN "run_move" ELSE "reduce")
            /\ ret' = ret
        /\ (epc = "sample" /\ epc' \notin {"sample", "interrupted"}) =>
            /\ epc' = "wait_ready"
            /\ Len(errors') >= Len(errors)
            /\ SubSeq(errors', 1, Len(errors)) = errors]_vars
  /\ [](epc = "reduce" => ENABLED evaluate_return)
  /\ []((epc = "idle" /\ ret /= <<>>) =>
          IF all_errors = <<>> THEN ret[1] = Sentinel
          ELSE IsRawRms(all_errors, ret[1]) \/ IsTwiceRms(all_errors, ret[1]))

\* C26 witness: the settle wait of the return leg timed out, and the evaluation
\* returned the cost of the samples it had collected
C26_Witness ==
  /\ epc = "idle"
  /\ ready = <<FALSE>>
  /\ all_errors /= <<>>
  /\ ret /= <<>>
  /\ ret[1] /= Sentinel

\* C27: the (params, cost) pair a search returns is consistent: the parameter
\* set is a full set evaluated during that call and the cost is one measured
\* during that call; an empty set, or one left over from an earlier phase, is
\* never returned paired with 999.
C27_ReturnedPairConsistent ==
  [][(pc = "search" /\ pc' \in {"summary", "hybrid"}) =>
       /\ result' /= <<>>
       /\ DOMAIN result'[1].params = Names
       /\ result'[1].rms \in rec_costs]_vars

\* C28: when the run has printed its completion summary, the gains live on
\* both axes are those of the reported best parameter set.
C28_LiveGainsAreBest ==
  (reported /= <<>> /\ DOMAIN reported[1].params = Names) =>
    \A a \in Axes, n \in Names : hal[a][n] = reported[1].params[n]

\* C29: the cost reported at completion is never higher than the baseline cost
\* measured at the start of the run.
C29_ReportedNotAboveBaseline ==
  (reported /= <<>> /\ baseline_rms /= <<>>) =>
    reported[1].rms.num * baseline_rms[1].den
      <= baseline_rms[1].num * reported[1].rms.den

\* C30: up to and including an answer 'q' or an invalid answer at the strategy
\* prompt, no search evaluation runs, nothing is saved, and every gain of both
\* axes keeps the value it had when the program started.
C30_QuitLeavesGains ==
  [][(pc \in {"start", "menu"} /\ pc' \in {"menu", "quit", "invalid"}) =>
       /\ hal' = hal
       /\ saved' = <<>>
       /\ eval_count' = 0
       /\ rec_costs' = {}]_vars
====
